---- MODULE Spec2Model ----
(***************************************************************************)
(* Analytics report update manager of cvat/apps/analytics_report:          *)
(* JobAnalyticsReportUpdateManager (report/create.py).                     *)
(*                                                                         *)
(* Two parts are modelled.  The scheduler part is                          *)
(* schedule_analytics_report_autoupdate_job with _find_next_job_id and the *)
(* delayed queue it lists and enqueues into.  The engine part is           *)
(* _check_job_analytics with _compute_report_for_job / _task / _project    *)
(* over the reports stored per job, task and project.                      *)
(*                                                                         *)
(* Time is counted in integer ticks (the code's datetimes have microsecond *)
(* resolution and timedelta // timedelta is an integer floor division).    *)
(***************************************************************************)
EXTENDS Integers, Sequences, FiniteSets, TLC

VARIABLES
    clock,         \* the wall clock read by timezone.now() / utcnow() / auto_now
    objects,       \* the jobs, tasks and projects that exist in the database
    updated_date,  \* entity -> its updated_date column
    report,        \* entity -> its AnalyticsReport row, or NoReport
    ret,           \* what the last _check_job_analytics run did and returned
    scheduled,     \* the rq-scheduler's delayed jobs, one per job id
    call,          \* caller -> the frame of its schedule_..._autoupdate_job call
    probe,         \* inputs and output of one isolated _find_next_job_id call
    queue,         \* the jobs of schedule_analytics_check_job that rq holds
    fetched,       \* the last get_analytics_check_job call: its rq_id and result
    worker         \* worker -> the frame of its _compute_report_for_job call

vars == <<clock, objects, updated_date, report, ret, scheduled, call, probe,
          queue, fetched, worker>>

---------------------------------------------------------------------------
(* Bounds of the model *)

\* the clock's last tick when calls of the scheduler run concurrently
MaxTime == 2

\* the clock's last tick when calls of the scheduler run one at a time
SeqMaxTime == 3

\* the clock's last tick in the engine's specification
EngineMaxTime == 1

\* ranges of the inputs of an isolated _find_next_job_id call
MaxDelay == 3

MaxProbeTime == 5

---------------------------------------------------------------------------
(* Entities: jobs (Leaf), tasks (Mid), projects (Top) *)

Job(n) == [kind |-> "job", id |-> n]

Task(n) == [kind |-> "task", id |-> n]

Project(n) == [kind |-> "project", id |-> n]

NoObj == [kind |-> "none", id |-> 0]

Entities == {Job(1), Job(2), Job(3), Task(1), Task(2), Project(1)}

\* task.project: Task 1 belongs to Project 1, Task 2 stands alone
task_project(t) == IF t = Task(1) THEN Project(1) ELSE NoObj

\* job.segment.task
job_task(j) == IF j = Job(3) THEN Task(2) ELSE Task(1)

InDatabase(obj) == obj \in objects

\* db_task.segment_set / job_set, in iteration order
task_jobs(t) ==
    SelectSeq(IF t = Task(1) THEN <<Job(1), Job(2)>> ELSE <<Job(3)>>, InDatabase)

\* db_project.tasks.all(), in iteration order
project_tasks(p) == SelectSeq(<<Task(1)>>, InDatabase)

\* The databases the specifications start from.
EngineWorld == {Project(1), Task(1), Job(1), Job(2)}

SchedulerWorlds == {{Task(2)}}

\* Optional values: None is the empty sequence, a value v is <<v>>.
None == <<>>

Some(v) == <<v>>

---------------------------------------------------------------------------
(* Reports and statistics *)

NoReport == [exists |-> FALSE]

MetricNames ==
    {"objects", "annotation_speed", "annotation_time",
     "total_annotation_speed", "total_object_count"}

\* statistics={} of a report that was just created
EmptyStatistics == [m \in {} |-> 0]

\* A metric's calculate().  The series it returns is kept opaque: it is named
\* by the metric and the object the metric was constructed with; input is what
\* the constructor was handed (raw data of a job, or entries of other metrics).
calculate(metric, obj, input) == [metric |-> metric, obj |-> obj]

get_statistics_entry(metric, obj, input) ==
    [title |-> metric, dataseries |-> calculate(metric, obj, input)]

\* A date column that takes the time of every save (created_date of a report,
\* updated_date of an entity).  The model classes are not among these sources.
auto_now(now) == now

\* AnalyticsReport.objects.create(..., statistics={}) followed by save()
ReportCreate(now) ==
    [exists |-> TRUE, created_date |-> auto_now(now), statistics |-> EmptyStatistics]

\* db_report.statistics = statistics; db_report.save()
ReportSave(now, statistics) ==
    [exists |-> TRUE, created_date |-> auto_now(now), statistics |-> statistics]

\* A variant of IsOutdated that also takes a report made at the very time of the
\* last change for out of date
IsOutdatedOrSame(created_date, updated) == created_date <= updated

\* created_date < updated_date: "recalculate the report if it is not relevant"
IsOutdated(created_date, updated) == created_date < updated

---------------------------------------------------------------------------
(* The recompute engine.  A run of _check_job_analytics is threaded through *)
(* an execution record x: the report table as the run has written it so    *)
(* far, the metric calculate() invocations made, the report rows written,  *)
(* the entities whose _compute_report_for_* was entered (in order), and    *)
(* the exception that ended the run ("ok" while none was raised).          *)
(* fail = [obj, at] makes the at-th calculate() of obj's own recomputation *)
(* raise; fail.obj = NoObj lets every metric succeed.                      *)

NumMetrics == 5

NoFail == [obj |-> NoObj, at |-> 0]

RECURSIVE ProjectJobs(_)
\* the jobs whose reports end up in job_reports, in order
ProjectJobs(tasks) ==
    IF tasks = <<>> THEN <<>> ELSE task_jobs(Head(tasks)) \o ProjectJobs(Tail(tasks))

RECURSIVE SeqRange(_)
SeqRange(seq) == IF seq = <<>> THEN {} ELSE {Head(seq)} \cup SeqRange(Tail(seq))

\* The entities below obj in the tree
Descendants(obj) ==
    IF obj.kind = "project"
    THEN SeqRange(project_tasks(obj)) \cup SeqRange(ProjectJobs(project_tasks(obj)))
    ELSE IF obj.kind = "task" THEN SeqRange(task_jobs(obj))
    ELSE {}

\* The metric failures a run for obj can meet: none, or the first or the last
\* calculate() of one entity of obj's tree
Failures(obj) ==
    {NoFail} \cup [obj : {obj} \cup Descendants(obj), at : {1, NumMetrics}]

StartRun == [report |-> report, calcs |-> 0, writes |-> 0, visited |-> <<>>,
             err |-> "ok", log |-> <<>>]

\* What a run does, in order, is kept in x.log: entering _compute_report_for_*
\* of an entity, a calculate() call, a write of a report row, a
\* refresh_from_db() of a report row, and the return of _compute_report_for_*.
EnterEvent(obj) == [ev |-> "enter", obj |-> obj]

WriteEvent(obj, statistics) ==
    [ev |-> "write", obj |-> obj, keys |-> DOMAIN statistics]

RefreshEvent(obj) == [ev |-> "refresh", obj |-> obj]

ReturnEvent(obj) == [ev |-> "return", obj |-> obj]

\* A calculate() call: of is the entity whose report is being recomputed,
\* given the object the metric was constructed with, from the reports whose
\* entries it was handed (with the created_date they had then), uses the
\* titles of the entries of this pass it was handed.
CalcEvent(metric, of, given, from, uses) ==
    [ev |-> "calc", metric |-> metric, obj |-> of, given |-> given,
     from |-> from, uses |-> uses]

Enter(x, obj) ==
    [x EXCEPT !.visited = Append(@, obj), !.log = Append(@, EnterEvent(obj))]

\* return db_report
Return(x, obj) ==
    IF x.err = "ok" THEN [x EXCEPT !.log = Append(@, ReturnEvent(obj))] ELSE x

\* if db_report is None: create the row with statistics={} and save it
GetOrCreate(x, obj, now) ==
    IF x.report[obj] = NoReport
    THEN [x EXCEPT !.report[obj] = ReportCreate(now), !.writes = @ + 1,
                   !.log = Append(@, WriteEvent(obj, EmptyStatistics))]
    ELSE x

\* The five _get_statistics_entry calls of one recomputation, in the order
\* calls gives, and the save that follows them; a calculate() that raises
\* leaves the row as it was.
Recalculate(x, obj, now, fail, statistics, calls) ==
    IF fail.obj = obj
    THEN [x EXCEPT !.calcs = @ + fail.at, !.err = "ComputationFailure",
                   !.log = @ \o SubSeq(calls, 1, fail.at)]
    ELSE [x EXCEPT !.calcs = @ + NumMetrics,
                   !.writes = @ + 1,
                   !.report[obj] = ReportSave(now, statistics),
                   !.log = (@ \o calls) \o <<WriteEvent(obj, statistics)>>]

\* A variant of JobStatistics that leaves out the two total metrics
JobStatisticsPrimaryOnly(db_job) ==
    [m \in {"objects", "annotation_speed", "annotation_time"} |->
        get_statistics_entry(m, db_job, db_job)]

JobStatistics(db_job) ==
    LET primary == [m \in {"objects", "annotation_speed", "annotation_time"} |->
                       get_statistics_entry(m, db_job, db_job)]
    IN  [m \in MetricNames |->
            IF m \in DOMAIN primary THEN primary[m]
            ELSE get_statistics_entry(m, db_job, primary["annotation_speed"])]

\* The calculate() calls of a job's recomputation, in the order of the calls:
\* the three primary metrics on the job's own data, then the two total metrics,
\* both handed statistics["annotation_speed"] of this pass
JobCalls(db_job) ==
    <<CalcEvent("objects", db_job, db_job, <<>>, {}),
      CalcEvent("annotation_speed", db_job, db_job, <<>>, {}),
      CalcEvent("annotation_time", db_job, db_job, <<>>, {}),
      CalcEvent("total_annotation_speed", db_job, db_job, <<>>, {"annotation_speed"}),
      CalcEvent("total_object_count", db_job, db_job, <<>>, {"annotation_speed"})>>

\* A variant of compute_report_for_job that recalculates only a report it has
\* just created
compute_report_for_job_if_created(x, db_job, now, fail) ==
    IF x.err # "ok" THEN x ELSE
    LET was_created == x.report[db_job] = NoReport
        x1 == GetOrCreate(Enter(x, db_job), db_job, now)
    IN  IF was_created
        THEN Return(Recalculate(x1, db_job, now, fail, JobStatistics(db_job),
                                JobCalls(db_job)), db_job)
        ELSE Return(x1, db_job)

compute_report_for_job(x, db_job, now, fail) ==
    IF x.err # "ok" THEN x ELSE
    LET was_created == x.report[db_job] = NoReport
        x1 == GetOrCreate(Enter(x, db_job), db_job, now)
        db_report == x1.report[db_job]
    IN  IF IsOutdated(db_report.created_date, updated_date[db_job]) \/ was_created
        THEN Return(Recalculate(x1, db_job, now, fail, JobStatistics(db_job),
                                JobCalls(db_job)), db_job)
        ELSE Return(x1, db_job)

RECURSIVE ComputeJobs(_, _, _, _)
\* for db_job in ...: job_reports.append(self._compute_report_for_job(db_job))
ComputeJobs(x, jobs, now, fail) ==
    IF jobs = <<>> THEN x
    ELSE ComputeJobs(compute_report_for_job(x, Head(jobs), now, fail),
                     Tail(jobs), now, fail)

\* [jr.statistics[key] for jr in job_reports]
Entries(x, jobs, key) == [i \in DOMAIN jobs |-> x.report[jobs[i]].statistics[key]]

\* jr.statistics["objects"] of a report whose statistics are still {}
HasAllEntries(x, jobs) ==
    \A i \in DOMAIN jobs :
        {"objects", "annotation_speed", "annotation_time"}
            \subseteq DOMAIN x.report[jobs[i]].statistics

\* The statistics a task or project aggregates from job_reports.  first is the
\* object handed to the objects metric, rest the one handed to the other four.
AggregateStatistics(x, first, rest, jobs) ==
    [m \in MetricNames |->
        IF m = "objects"
        THEN get_statistics_entry(m, first, Entries(x, jobs, "objects"))
        ELSE IF m = "annotation_time"
        THEN get_statistics_entry(m, rest, Entries(x, jobs, "annotation_time"))
        ELSE get_statistics_entry(m, rest, Entries(x, jobs, "annotation_speed"))]

\* The job reports in job_reports, as they are when the aggregation reads them
Sources(x, jobs) ==
    [i \in DOMAIN jobs |->
        [obj |-> jobs[i], created_date |-> x.report[jobs[i]].created_date]]

\* The calculate() calls of an aggregation, in the order of the calls
AggregateCalls(x, obj, first, rest, jobs) ==
    <<CalcEvent("objects", obj, first, Sources(x, jobs), {}),
      CalcEvent("annotation_speed", obj, rest, Sources(x, jobs), {}),
      CalcEvent("annotation_time", obj, rest, Sources(x, jobs), {}),
      CalcEvent("total_annotation_speed", obj, rest, Sources(x, jobs), {}),
      CalcEvent("total_object_count", obj, rest, Sources(x, jobs), {})>>

Aggregate(x, obj, first, rest, jobs, now, fail) ==
    IF x.err # "ok" THEN x
    ELSE IF ~HasAllEntries(x, jobs) THEN [x EXCEPT !.err = "KeyError"]
    ELSE Recalculate(x, obj, now, fail, AggregateStatistics(x, first, rest, jobs),
                     AggregateCalls(x, obj, first, rest, jobs))

compute_report_for_task(x, db_task, now, fail) ==
    IF x.err # "ok" THEN x ELSE
    LET was_created == x.report[db_task] = NoReport
        x1 == GetOrCreate(Enter(x, db_task), db_task, now)
        db_report == x1.report[db_task]
    IN  IF IsOutdated(db_report.created_date, updated_date[db_task]) \/ was_created
        THEN Return(Aggregate(ComputeJobs(x1, task_jobs(db_task), now, fail),
                              db_task, db_task, db_task, task_jobs(db_task),
                              now, fail), db_task)
        ELSE Return(x1, db_task)

RECURSIVE RefreshJobsOnly(_, _, _, _)
\* A variant of RefreshJobs that reloads the reports of the jobs and does not
\* call _compute_report_for_job
RefreshJobsOnly(x, jobs, now, fail) ==
    IF jobs = <<>> \/ x.err # "ok" THEN x
    ELSE IF x.report[Head(jobs)] = NoReport
    THEN [x EXCEPT !.err = "RelatedObjectDoesNotExist"]
    ELSE RefreshJobsOnly([x EXCEPT !.log = Append(@, RefreshEvent(Head(jobs)))],
                         Tail(jobs), now, fail)

RECURSIVE RefreshJobs(_, _, _, _)
\* db_job.analytics_report.refresh_from_db(); then _compute_report_for_job
RefreshJobs(x, jobs, now, fail) ==
    IF jobs = <<>> \/ x.err # "ok" THEN x
    ELSE IF x.report[Head(jobs)] = NoReport
    THEN [x EXCEPT !.err = "RelatedObjectDoesNotExist"]
    ELSE RefreshJobs(
             compute_report_for_job(
                 [x EXCEPT !.log = Append(@, RefreshEvent(Head(jobs)))],
                 Head(jobs), now, fail),
             Tail(jobs), now, fail)

RECURSIVE ComputeTasks(_, _, _, _)
\* for db_task in db_project.tasks.all(): ...
ComputeTasks(x, tasks, now, fail) ==
    IF tasks = <<>> \/ x.err # "ok" THEN x
    ELSE ComputeTasks(
             RefreshJobs(compute_report_for_task(x, Head(tasks), now, fail),
                         task_jobs(Head(tasks)), now, fail),
             Tail(tasks), now, fail)

compute_report_for_project(x, db_project, now, fail) ==
    IF x.err # "ok" THEN x ELSE
    LET was_created == x.report[db_project] = NoReport
        x1 == GetOrCreate(Enter(x, db_project), db_project, now)
        db_report == x1.report[db_project]
        tasks == project_tasks(db_project)
        x2 == ComputeTasks(x1, tasks, now, fail)
    IN  IF IsOutdated(db_report.created_date, updated_date[db_project]) \/ was_created
        THEN IF x2.err = "ok" /\ tasks = <<>>
             THEN [x2 EXCEPT !.err = "NameError"]  \* db_task was never bound
             ELSE Return(Aggregate(x2, db_project, db_project, tasks[Len(tasks)],
                                   ProjectJobs(tasks), now, fail), db_project)
        ELSE Return(x1, db_project)

\* _check_job_analytics(cvat_job_id, cvat_task_id, cvat_project_id)
check_job_analytics(obj, now, fail) ==
    IF obj.kind = "job" THEN compute_report_for_job(StartRun, obj, now, fail)
    ELSE IF obj.kind = "task" THEN compute_report_for_task(StartRun, obj, now, fail)
    ELSE compute_report_for_project(StartRun, obj, now, fail)

\* What a run leaves behind: the rows it wrote, and what it did.
RunResult(obj, x) ==
    [obj |-> obj, err |-> x.err, calcs |-> x.calcs, writes |-> x.writes,
     visited |-> x.visited,
     returned |-> IF x.err = "ok" THEN x.report[obj] ELSE NoReport]

NoRun == [obj |-> NoObj, err |-> "ok", calcs |-> 0, writes |-> 0,
          visited |-> <<>>, returned |-> NoReport]

---------------------------------------------------------------------------
(* The scheduler: job ids, _find_next_job_id and the delayed queue *)

\* settings.ANALYTICS_CHECK_JOB_DELAY, in ticks
Delay == 2

\* timezone.datetime.min: earlier than every time the clock shows
DateTimeMin == -1

Initial == [text |-> "initial"]

Timestamp(t) == [text |-> "timestamp", value |-> t]

make_queue_job_prefix(obj) ==
    IF obj.kind = "task"
    THEN [prefix |-> "update-analytics-report-task-", obj_id |-> obj.id]
    ELSE [prefix |-> "update-analytics-report-project-", obj_id |-> obj.id]

\* f"{prefix}{suffix}"
JobId(prefix, suffix) ==
    [prefix |-> prefix.prefix, obj_id |-> prefix.obj_id, suffix |-> suffix]

\* A variant of make_initial_queue_job_id whose key is made from the time of
\* the call
make_initial_queue_job_id_per_call(obj) ==
    JobId(make_queue_job_prefix(obj), Timestamp(clock))

\* f"{prefix}initial"
make_initial_queue_job_id(obj) == JobId(make_queue_job_prefix(obj), Initial)

\* f"{prefix}{start_time.timestamp()}".  A key's text and the time parsed from
\* it denote the same tick: the float printed for a time of microsecond
\* precision parses back to that time.
make_regular_queue_job_id(obj, start_time) ==
    JobId(make_queue_job_prefix(obj), Timestamp(start_time))

\* j.startswith(job_id_prefix)
startswith(job_id, job_id_prefix) ==
    /\ job_id.prefix = job_id_prefix.prefix
    /\ job_id.obj_id = job_id_prefix.obj_id

\* _get_timestamp: the text after the prefix, parsed
get_timestamp(job_id) ==
    IF job_id.suffix = Initial THEN DateTimeMin ELSE job_id.suffix.value

get_last_report_time(obj) ==
    IF report[obj] = NoReport THEN None ELSE Some(report[obj].created_date)

Max(a, b) == IF a >= b THEN a ELSE b

\* Variants of Intervals: the whole intervals passed, without the one added;
\* the count without its lower bound of one; the intervals begun, rounded up
IntervalsFloor(now, last_update_time, delay) ==
    Max(1, (now - last_update_time) \div delay)

IntervalsUnclamped(now, last_update_time, delay) ==
    1 + ((now - last_update_time) \div delay)

IntervalsCeiling(now, last_update_time, delay) ==
    Max(1, -((last_update_time - now) \div delay))

\* max(1, 1 + (now - last_update_time) // delay)
Intervals(now, last_update_time, delay) ==
    Max(1, 1 + ((now - last_update_time) \div delay))

\* max(..., key=_get_timestamp, default=None) over the ids with the prefix
MaxJobId(existing_job_ids, job_id_prefix) ==
    LET own == {j \in existing_job_ids : startswith(j, job_id_prefix)}
    IN  IF own = {} THEN None
        ELSE Some(CHOOSE j \in own :
                      \A k \in own : get_timestamp(j) >= get_timestamp(k))

\* Whether the "reuse the existing next job" branch is the one taken.
Reuses(existing_job_ids, obj, now) ==
    LET max_job_id == MaxJobId(existing_job_ids, make_queue_job_prefix(obj))
    IN  max_job_id # None /\ now < get_timestamp(max_job_id[1])

\* _find_next_job_id, with the report time it reads and the configured delay
find_next_job_id(existing_job_ids, obj, now, last_update_time, delay) ==
    LET max_job_id == MaxJobId(existing_job_ids, make_queue_job_prefix(obj))
    IN  IF last_update_time = None
        THEN make_initial_queue_job_id(obj)
        ELSE IF Reuses(existing_job_ids, obj, now)
        THEN max_job_id[1]
        ELSE make_regular_queue_job_id(obj,
                 last_update_time[1]
                     + delay * Intervals(now, last_update_time[1], delay))

\* A variant of get_jobs that leaves out the jobs due at the bound itself
get_jobs_before(until) == {j \in scheduled : j.time < until}

\* scheduler.get_jobs(until=next_job_time)
get_jobs(until) == {j \in scheduled : j.time <= until}

\* scheduler.enqueue_at: the job is stored under its id, replacing a job that
\* is already stored under the same id
enqueue_at(time, cvat_task_id, cvat_project_id, job_id) ==
    {j \in scheduled : j.id # job_id}
        \cup {[id |-> job_id, time |-> time,
               cvat_task_id |-> cvat_task_id, cvat_project_id |-> cvat_project_id]}

\* A variant of target_obj that stops at the task of a job
target_obj_nearest(obj) ==
    IF obj.kind = "job" THEN job_task(obj) ELSE obj

\* target_obj of a call made with job=, task= or project=
target_obj(obj) ==
    IF obj.kind = "job"
    THEN IF task_project(job_task(obj)) # NoObj
         THEN task_project(job_task(obj)) ELSE job_task(obj)
    ELSE IF obj.kind = "task"
    THEN IF task_project(obj) # NoObj THEN task_project(obj) ELSE obj
    ELSE obj

cvat_task_id(obj) ==
    IF target_obj(obj).kind = "task" THEN Some(target_obj(obj).id) ELSE None

cvat_project_id(obj) ==
    IF target_obj(obj).kind = "project" THEN Some(target_obj(obj).id) ELSE None

\* The objects periodic jobs are scheduled for
Targets == {target_obj(obj) : obj \in objects}

\* The object _check_job_analytics loads for a scheduled job's arguments
PayloadObj(job) ==
    IF job.cvat_task_id # None THEN Task(job.cvat_task_id[1])
    ELSE Project(job.cvat_project_id[1])

---------------------------------------------------------------------------
(* State and actions *)

\* The processes that call schedule_analytics_report_autoupdate_job
Callers == {"c1", "c2"}

IdleFrame == [pc |-> "idle"]

NoProbe == [pc |-> "none"]

\* No get_analytics_check_job call has been made.
NoFetch == [rq_id |-> None, job |-> None]

\* The rq workers that run _compute_report_for_job side by side
Workers == {"w1", "w2"}

InitIn(worlds) ==
    /\ clock = 0
    /\ objects \in worlds
    /\ updated_date = [e \in Entities |-> 0]
    /\ report = [e \in Entities |-> NoReport]
    /\ ret = NoRun
    /\ scheduled = {}
    /\ call = [c \in Callers |-> IdleFrame]
    /\ probe = NoProbe
    /\ queue = {}
    /\ fetched = NoFetch
    /\ worker = [w \in Workers |-> IdleFrame]

\* Time passes.
Tick(limit) ==
    /\ clock < limit
    /\ clock' = clock + 1
    /\ UNCHANGED <<objects, updated_date, report, ret, scheduled, call, probe, queue, fetched, worker>>

\* An entity is changed and saved: its updated_date becomes the current time.
Mutate(obj) ==
    /\ updated_date[obj] < clock
    /\ updated_date' = [updated_date EXCEPT ![obj] = auto_now(clock)]
    /\ UNCHANGED <<clock, objects, report, ret, scheduled, call, probe, queue, fetched, worker>>

\* A worker runs _check_job_analytics for obj to completion and the caller sees
\* what it did and returned.
CheckJobAnalytics(obj, fail) ==
    LET x == check_job_analytics(obj, clock, fail)
    IN  /\ UNCHANGED <<clock, objects, updated_date, scheduled, call, probe, queue, fetched, worker>>
        /\ report' = x.report
        /\ ret' = RunResult(obj, x)

\* A worker runs an on-demand job for obj to completion; nobody reads its result.
OnDemandJob(obj, fail) ==
    /\ report' = check_job_analytics(obj, clock, fail).report
    /\ UNCHANGED <<clock, objects, updated_date, ret, scheduled, call, probe, queue, fetched, worker>>

\* The queue takes a delayed job whose time has come and a worker runs it.
RunScheduledJob(job, fail) ==
    /\ job.time <= clock
    /\ scheduled' = scheduled \ {job}
    /\ report' = check_job_analytics(PayloadObj(job), clock, fail).report
    /\ UNCHANGED <<clock, objects, updated_date, ret, call, probe, queue, fetched, worker>>

\* schedule_analytics_report_autoupdate_job(job= | task= | project= obj), up to
\* the listing: now = timezone.now(); next_job_time = now.utcnow() + delay;
\* existing_job_ids = ...get_jobs(until=next_job_time); target_obj and the ids
\* are taken from the argument.  The two adjacent clock reads are one reading.
Start(c, obj) ==
    /\ call[c].pc = "idle"
    /\ call' = [call EXCEPT ![c] =
                   [pc |-> "find", obj |-> obj, now |-> clock,
                    next_job_time |-> clock + Delay,
                    existing_job_ids |-> {j.id : j \in get_jobs(clock + Delay)},
                    target_obj |-> target_obj(obj),
                    cvat_task_id |-> cvat_task_id(obj),
                    cvat_project_id |-> cvat_project_id(obj)]]
    /\ UNCHANGED <<clock, objects, updated_date, report, ret, scheduled, probe, queue, fetched, worker>>

\* queue_job_id = self._find_next_job_id(existing_job_ids, target_obj, now=now)
Find(c) ==
    LET f == call[c]
        last_update_time == get_last_report_time(f.target_obj)
    IN  /\ f.pc = "find"
        /\ call' = [call EXCEPT ![c] =
                       [pc |-> "enqueue", obj |-> f.obj, now |-> f.now,
                        next_job_time |-> f.next_job_time,
                        existing_job_ids |-> f.existing_job_ids,
                        target_obj |-> f.target_obj,
                        cvat_task_id |-> f.cvat_task_id,
                        cvat_project_id |-> f.cvat_project_id,
                        last_update_time |-> last_update_time,
                        queue_job_id |->
                            find_next_job_id(f.existing_job_ids, f.target_obj,
                                             f.now, last_update_time, Delay)]]
        /\ UNCHANGED <<clock, objects, updated_date, report, ret, scheduled, probe, queue, fetched, worker>>

\* if queue_job_id not in existing_job_ids: scheduler.enqueue_at(next_job_time, ...)
Enqueue(c) ==
    LET f == call[c]
    IN  /\ f.pc = "enqueue"
        /\ scheduled' =
               IF f.queue_job_id \notin f.existing_job_ids
               THEN enqueue_at(f.next_job_time, f.cvat_task_id,
                               f.cvat_project_id, f.queue_job_id)
               ELSE scheduled
        /\ call' = [call EXCEPT ![c] = IdleFrame]
        /\ UNCHANGED <<clock, objects, updated_date, report, ret, probe, queue, fetched, worker>>

\* Callers are interchangeable: the second one is the one that starts while
\* the first is inside a call.
StartsInOrder(c) == c = "c2" => call["c1"].pc # "idle"

Init == InitIn(SchedulerWorlds)

Next ==
    \/ Tick(MaxTime)
    \/ \E obj \in objects : Mutate(obj)
    \/ \E obj \in objects : \E fail \in Failures(obj) : OnDemandJob(obj, fail)
    \/ \E job \in scheduled : \E fail \in Failures(PayloadObj(job)) :
           RunScheduledJob(job, fail)
    \/ \E c \in Callers, obj \in objects : StartsInOrder(c) /\ Start(c, obj)
    \/ \E c \in Callers : Find(c)
    \/ \E c \in Callers : Enqueue(c)

Spec == Init /\ [][Next]_vars

\* The same, with one call of schedule_analytics_report_autoupdate_job at a time
SeqNext ==
    \/ Tick(SeqMaxTime)
    \/ \E obj \in objects : Mutate(obj)
    \/ \E obj \in objects : \E fail \in Failures(obj) : OnDemandJob(obj, fail)
    \/ \E job \in scheduled : \E fail \in Failures(PayloadObj(job)) :
           RunScheduledJob(job, fail)
    \/ \E obj \in objects : Start("c1", obj)
    \/ Find("c1")
    \/ Enqueue("c1")

SeqSpec == Init /\ [][SeqNext]_vars

\* The engine alone, on a project with one task and two jobs
EngineInit == InitIn({EngineWorld})

\* The result of the run that has just ended is taken: it is looked at once,
\* before anything else happens.
TakeResult ==
    /\ ret # NoRun
    /\ ret' = NoRun
    /\ UNCHANGED <<clock, objects, updated_date, report, scheduled, call, probe, queue, fetched, worker>>

EngineNext ==
    \/ ret = NoRun /\ Tick(EngineMaxTime)
    \/ ret = NoRun /\ \E obj \in objects : Mutate(obj)
    \/ ret = NoRun /\ \E obj \in objects : \E fail \in Failures(obj) :
                         CheckJobAnalytics(obj, fail)
    \/ TakeResult

EngineSpec == EngineInit /\ [][EngineNext]_vars

\* _find_next_job_id alone, on every input of the ranges: the object, the time
\* of the call, the report time, the delay and the ids listed as pending
ProbeObjects == {Task(2), Project(1)}

ProbeJobIds ==
    {make_initial_queue_job_id(Task(2)), make_initial_queue_job_id(Project(1))}
        \cup {make_regular_queue_job_id(Task(2), t) : t \in {1, 3, 4}}
        \cup {make_regular_queue_job_id(Project(1), t) : t \in {2, 4}}

ProbeInputs ==
    [pc : {"in"}, obj : ProbeObjects, now : 0..MaxProbeTime,
     last_update_time : {None} \cup {Some(t) : t \in 0..MaxProbeTime},
     delay : 1..MaxDelay, existing_job_ids : SUBSET ProbeJobIds]

FindInit ==
    /\ clock = 0
    /\ objects = ProbeObjects
    /\ updated_date = [e \in Entities |-> 0]
    /\ report = [e \in Entities |-> NoReport]
    /\ ret = NoRun
    /\ scheduled = {}
    /\ call = [c \in Callers |-> IdleFrame]
    /\ probe \in ProbeInputs
    /\ queue = {}
    /\ fetched = NoFetch
    /\ worker = [w \in Workers |-> IdleFrame]

FindNextJobId ==
    /\ probe.pc = "in"
    /\ probe' = [pc |-> "out", obj |-> probe.obj, now |-> probe.now,
                 last_update_time |-> probe.last_update_time,
                 delay |-> probe.delay,
                 existing_job_ids |-> probe.existing_job_ids,
                 queue_job_id |->
                     find_next_job_id(probe.existing_job_ids, probe.obj, probe.now,
                                      probe.last_update_time, probe.delay)]
    /\ UNCHANGED <<clock, objects, updated_date, report, ret, scheduled, call,
                   queue, fetched, worker>>

FindNext == FindNextJobId

FindSpec == FindInit /\ [][FindNext]_vars

\* schedule_analytics_report_autoupdate_job up to the clock reads of lines 115
\* and 117, the listing not yet read
ReadClock(c, obj) ==
    /\ call[c].pc = "idle"
    /\ call' = [call EXCEPT ![c] =
                   [pc |-> "list", obj |-> obj, now |-> clock,
                    next_job_time |-> clock + Delay,
                    target_obj |-> target_obj(obj),
                    cvat_task_id |-> cvat_task_id(obj),
                    cvat_project_id |-> cvat_project_id(obj)]]
    /\ UNCHANGED <<clock, objects, updated_date, report, ret, scheduled, probe,
                   queue, fetched, worker>>

\* existing_job_ids = set(j.id for j in scheduler.get_jobs(until=next_job_time))
List(c) ==
    LET f == call[c]
    IN  /\ f.pc = "list"
        /\ call' = [call EXCEPT ![c] =
                       [pc |-> "find", obj |-> f.obj, now |-> f.now,
                        next_job_time |-> f.next_job_time,
                        existing_job_ids |-> {j.id : j \in get_jobs(f.next_job_time)},
                        target_obj |-> f.target_obj,
                        cvat_task_id |-> f.cvat_task_id,
                        cvat_project_id |-> f.cvat_project_id]]
        /\ UNCHANGED <<clock, objects, updated_date, report, ret, scheduled,
                       probe, queue, fetched, worker>>

\* Two callers for one task, the clock reads and the listing of a call being
\* separate steps
RaceMaxTime == 2

RaceInit == InitIn(SchedulerWorlds)

RaceNext ==
    \/ Tick(RaceMaxTime)
    \/ \E obj \in Targets : OnDemandJob(obj, NoFail)
    \/ \E job \in scheduled : RunScheduledJob(job, NoFail)
    \/ \E c \in Callers, obj \in objects : StartsInOrder(c) /\ ReadClock(c, obj)
    \/ \E c \in Callers : List(c)
    \/ \E c \in Callers : Find(c)
    \/ \E c \in Callers : Enqueue(c)

RaceSpec == RaceInit /\ [][RaceNext]_vars

\* Calls made one at a time from every level of a project's tree and of a task
\* that stands alone, the reports being computed for the targets only
TreeMaxTime == 2

TreeWorld == {Project(1), Task(1), Job(1), Job(2), Task(2), Job(3)}

TreeInit == InitIn({TreeWorld})

TreeNext ==
    \/ Tick(TreeMaxTime)
    \/ \E obj \in Targets : OnDemandJob(obj, NoFail)
    \/ \E job \in scheduled : RunScheduledJob(job, NoFail)
    \/ \E obj \in objects : Start("c1", obj)
    \/ Find("c1")
    \/ Enqueue("c1")

TreeSpec == TreeInit /\ [][TreeNext]_vars

---------------------------------------------------------------------------
(* _compute_report_for_job run by several workers, statement by statement *)

WorkerMaxTime == 2

\* A task that stands alone and its job
WorkerWorld == {Task(2), Job(3)}

\* AnalyticsReport.objects.create(job_id=..., statistics={}) on the table as it
\* is: an entity owns at most one report, so the insert of a second row for
\* the job is refused.  The model classes are not among these sources.
objects_create(db_job, now) ==
    IF report[db_job] # NoReport
    THEN [err |-> "IntegrityError", report |-> report]
    ELSE [err |-> "ok", report |-> [report EXCEPT ![db_job] = ReportCreate(now)]]

\* db_job = Job.objects.select_related("analytics_report").get(pk=cvat_job_id):
\* the worker holds the job and its report as they are read here.
LoadJob(w, db_job) ==
    /\ worker[w].pc = "idle"
    /\ db_job.kind = "job"
    /\ worker' = [worker EXCEPT ![w] =
                     [pc |-> "loaded", db_job |-> db_job,
                      db_report |-> report[db_job],
                      updated_date |-> updated_date[db_job],
                      was_created |-> FALSE]]
    /\ UNCHANGED <<clock, objects, updated_date, report, ret, scheduled, call,
                   probe, queue, fetched>>

\* db_report = getattr(db_job, "analytics_report", None); if it is None the
\* row is created and saved, and was_created is set.
GetOrCreateReport(w) ==
    LET f == worker[w]
        made == objects_create(f.db_job, clock)
    IN  /\ f.pc = "loaded"
        /\ IF f.db_report # NoReport
           THEN /\ worker' = [worker EXCEPT ![w].pc = "check"]
                /\ report' = report
           ELSE IF made.err # "ok"
           THEN /\ worker' = [worker EXCEPT ![w].pc = "raised"]
                /\ report' = report
           ELSE /\ worker' = [worker EXCEPT ![w] =
                                 [f EXCEPT !.pc = "check",
                                           !.db_report = made.report[f.db_job],
                                           !.was_created = TRUE]]
                /\ report' = made.report
        /\ UNCHANGED <<clock, objects, updated_date, ret, scheduled, call, probe,
                       queue, fetched>>

\* if db_report.created_date < db_job.updated_date or was_created: the metrics
\* are calculated, db_report.statistics is set and db_report.save() writes the
\* row; otherwise the report is returned as it was read.
RecalculateReport(w) ==
    LET f == worker[w]
        saved == ReportSave(clock, JobStatistics(f.db_job))
    IN  /\ f.pc = "check"
        /\ IF IsOutdated(f.db_report.created_date, f.updated_date) \/ f.was_created
           THEN /\ report' = [report EXCEPT ![f.db_job] = saved]
                /\ worker' = [worker EXCEPT ![w] =
                                 [f EXCEPT !.pc = "saved", !.db_report = saved]]
           ELSE /\ report' = report
                /\ worker' = [worker EXCEPT ![w].pc = "kept"]
        /\ UNCHANGED <<clock, objects, updated_date, ret, scheduled, call, probe,
                       queue, fetched>>

\* return db_report, or the exception leaves _check_job_analytics
ReturnReport(w) ==
    /\ worker[w].pc \in {"saved", "kept", "raised"}
    /\ worker' = [worker EXCEPT ![w] = IdleFrame]
    /\ UNCHANGED <<clock, objects, updated_date, report, ret, scheduled, call,
                   probe, queue, fetched>>

WorkerInit == InitIn({WorkerWorld})

WorkerNext ==
    \/ Tick(WorkerMaxTime)
    \/ \E obj \in objects : Mutate(obj)
    \/ \E w \in Workers, db_job \in objects : LoadJob(w, db_job)
    \/ \E w \in Workers : GetOrCreateReport(w)
    \/ \E w \in Workers : RecalculateReport(w)
    \/ \E w \in Workers : ReturnReport(w)

WorkerSpec == WorkerInit /\ [][WorkerNext]_vars

---------------------------------------------------------------------------
(* On-demand jobs: schedule_analytics_check_job and get_analytics_check_job *)

\* ranges of the on-demand specification: the clock's last tick and the
\* number of distinct values uuid4() can draw
QueueMaxTime == 1

MaxUuid == 2

UuidValues == 1..MaxUuid

\* the users that ask for a report
UserIds == {1}

\* _RQ_CUSTOM_ANALYTICS_CHECK_JOB_TYPE
CustomType == "custom_analytics_check"

\* A variant of _make_custom_analytics_check_job_id whose ids are timestamp
\* keys of a task
make_custom_analytics_check_job_id_as_key(n) ==
    JobId(make_queue_job_prefix(Task(n)), Timestamp(n))

\* uuid4().hex, n standing for the bits drawn: 32 characters out of 0-9a-f and
\* nothing before them.  No such text begins with "update-analytics-report-",
\* whose first character is no hexadecimal digit.
make_custom_analytics_check_job_id(n) ==
    [prefix |-> "", obj_id |-> 0, suffix |-> [text |-> "hex", value |-> n]]

\* The job that queue.enqueue(...) of schedule_analytics_check_job stores
CheckJob(rq_id, obj, user_id) ==
    [id |-> rq_id,
     cvat_job_id |-> IF obj.kind = "job" THEN Some(obj.id) ELSE None,
     cvat_task_id |-> IF obj.kind = "task" THEN Some(obj.id) ELSE None,
     cvat_project_id |-> IF obj.kind = "project" THEN Some(obj.id) ELSE None,
     meta |-> [user_id |-> user_id, job_type |-> CustomType],
     status |-> "queued"]

\* queue.fetch_job(rq_id): the job stored under the id, be it a job of the
\* queue or one the scheduler of the same queue holds
fetch_job(rq_id) ==
    LET found == {j \in queue \cup scheduled : j.id = rq_id}
    IN  IF found = {} THEN None ELSE Some(CHOOSE j \in found : TRUE)

\* rq_job.meta.get("job_type")
job_type(rq_job) ==
    IF "meta" \in DOMAIN rq_job /\ "job_type" \in DOMAIN rq_job.meta
    THEN Some(rq_job.meta.job_type) ELSE None

\* A variant of is_custom_analytics_check_job that takes every job
is_any_job(rq_job) == TRUE

is_custom_analytics_check_job(rq_job) == job_type(rq_job) = Some(CustomType)

get_analytics_check_job(rq_id) ==
    LET rq_job == fetch_job(rq_id)
    IN  IF rq_job # None /\ ~is_custom_analytics_check_job(rq_job[1])
        THEN None ELSE rq_job

\* The object _check_job_analytics loads for an on-demand job's arguments
CheckJobObj(job) ==
    IF job.cvat_job_id # None THEN Job(job.cvat_job_id[1])
    ELSE IF job.cvat_task_id # None THEN Task(job.cvat_task_id[1])
    ELSE Project(job.cvat_project_id[1])

\* schedule_analytics_check_job(job= | task= | project= obj, user_id=user_id)
ScheduleAnalyticsCheckJob(obj, user_id) ==
    \E n \in UuidValues :
        LET rq_id == make_custom_analytics_check_job_id(n)
        IN  /\ \A j \in queue : j.id # rq_id
            /\ queue' = queue \cup {CheckJob(rq_id, obj, user_id)}
            /\ UNCHANGED <<clock, objects, updated_date, report, ret, scheduled,
                           call, probe, fetched, worker>>

\* get_analytics_check_job(rq_id)
GetAnalyticsCheckJob(rq_id) ==
    /\ fetched' = [rq_id |-> Some(rq_id), job |-> get_analytics_check_job(rq_id)]
    /\ UNCHANGED <<clock, objects, updated_date, report, ret, scheduled, call,
                   probe, queue, worker>>

\* A worker takes an on-demand job from the queue and runs it to completion;
\* the job is kept, finished or failed, for _JOB_RESULT_TTL.
RunQueuedJob(job, fail) ==
    LET x == check_job_analytics(CheckJobObj(job), clock, fail)
    IN  /\ job.status = "queued"
        /\ report' = x.report
        /\ queue' = (queue \ {job})
               \cup {[job EXCEPT !.status =
                         IF x.err = "ok" THEN "finished" ELSE "failed"]}
        /\ UNCHANGED <<clock, objects, updated_date, ret, scheduled, call, probe,
                       fetched, worker>>

\* result_ttl / failure_ttl of a finished or failed on-demand job runs out.
ExpireJob(job) ==
    /\ job.status # "queued"
    /\ queue' = queue \ {job}
    /\ UNCHANGED <<clock, objects, updated_date, report, ret, scheduled, call,
                   probe, fetched, worker>>

\* The ids get_analytics_check_job is asked for: every id uuid4() can draw,
\* enqueued or not, and the ids of the periodic jobs
AskedIds ==
    {make_custom_analytics_check_job_id(n) : n \in UuidValues}
        \cup {j.id : j \in scheduled}
        \cup {make_initial_queue_job_id(target_obj(obj)) : obj \in objects}

QueueInit == InitIn(SchedulerWorlds)

QueueNext ==
    \/ Tick(QueueMaxTime)
    \/ \E obj \in objects, user_id \in UserIds : ScheduleAnalyticsCheckJob(obj, user_id)
    \/ \E rq_id \in AskedIds : GetAnalyticsCheckJob(rq_id)
    \/ \E job \in queue : \E fail \in Failures(CheckJobObj(job)) :
           RunQueuedJob(job, fail)
    \/ \E job \in queue : ExpireJob(job)
    \/ \E obj \in objects : Start("c1", obj)
    \/ Find("c1")
    \/ Enqueue("c1")

QueueSpec == QueueInit /\ [][QueueNext]_vars

---------------------------------------------------------------------------
(* Properties of the scheduler *)

\* The periodic jobs of obj that are in the delayed queue
PendingJobs(obj) ==
    {k \in scheduled : startswith(k.id, make_queue_job_prefix(obj))}

\* The ids of the periodic jobs of obj that are in the delayed queue
PendingIds(obj) == {j.id : j \in PendingJobs(obj)}

\* C1: right after a call of schedule_analytics_report_autoupdate_job for a
\* target, exactly one periodic job of that target is pending, and no target
\* ever has two pending periodic jobs.
OnePendingPeriodicJob ==
    [][\A obj \in Targets :
           /\ Cardinality(PendingJobs(obj))' <= 1
           /\ (Enqueue("c1") /\ call["c1"].target_obj = obj) =>
                  Cardinality(PendingJobs(obj))' = 1]_vars

\* C2: while the target has no report, the only periodic job pending for it is
\* the one under the initial key, and every call that completes, however the
\* calls interleave, leaves exactly that one job pending.
InitialSchedulingIdempotent ==
    [][\A obj \in Targets :
           report'[obj] = NoReport =>
               /\ PendingIds(obj)' \subseteq {make_initial_queue_job_id(obj)}
               /\ \A c \in Callers :
                      (Enqueue(c) /\ call[c].target_obj = obj) =>
                          /\ PendingIds(obj)' = {make_initial_queue_job_id(obj)}
                          /\ Cardinality(PendingJobs(obj))' = 1]_vars

\* A call is about to enqueue the initial key over the initial job that a
\* concurrent call has enqueued since this one listed the queue.
InitialSchedulingWitness ==
    /\ call["c1"].pc = "enqueue"
    /\ report[call["c1"].target_obj] = NoReport
    /\ call["c1"].queue_job_id = make_initial_queue_job_id(call["c1"].target_obj)
    /\ call["c1"].queue_job_id \notin call["c1"].existing_job_ids
    /\ PendingIds(call["c1"].target_obj)
           = {make_initial_queue_job_id(call["c1"].target_obj)}

\* The calls that have resolved their key and have not yet enqueued it
Resolved == {c \in Callers : call[c].pc = "enqueue"}

\* The call of c was made in the window [t0, t0 + Delay) of the report time t0
\* it read.
InWindow(c) ==
    /\ call[c].last_update_time # None
    /\ call[c].last_update_time[1] <= call[c].now
    /\ call[c].now < call[c].last_update_time[1] + Delay

\* The call of c took the branch that reuses a pending job.
TookReuse(c) ==
    /\ call[c].last_update_time # None
    /\ Reuses(call[c].existing_job_ids, call[c].target_obj, call[c].now)

\* C3 as stated: two calls for one target made in the same window of the same
\* report time resolve to the same key, and a call made after the end of that
\* window resolves to a key with a later timestamp.
WindowCoalescing ==
    \A c \in Resolved, e \in Resolved :
        (/\ call[c].target_obj = call[e].target_obj
         /\ call[c].last_update_time = call[e].last_update_time
         /\ InWindow(c)) =>
            /\ InWindow(e) => call[c].queue_job_id = call[e].queue_job_id
            /\ call[e].now > call[e].last_update_time[1] + Delay =>
                   get_timestamp(call[e].queue_job_id)
                       > get_timestamp(call[c].queue_job_id)

\* C3, amended: a call in the window [t0, t0 + Delay) that does not reuse a
\* pending job resolves to the key of t0 + Delay; a call at t0 + Delay or later
\* that does not reuse one resolves to a key later than t0 + Delay; a call that
\* reuses a pending job resolves to the pending key with the greatest
\* timestamp, which is later than the time of the call.
WindowCoalescingFreshKey ==
    \A c \in Resolved :
        call[c].last_update_time # None =>
            LET t0 == call[c].last_update_time[1]
                key == call[c].queue_job_id
            IN  /\ (InWindow(c) /\ ~TookReuse(c)) =>
                       key = make_regular_queue_job_id(call[c].target_obj,
                                                       t0 + Delay)
                /\ (call[c].now >= t0 + Delay /\ ~TookReuse(c)) =>
                       /\ get_timestamp(key) > t0 + Delay
                       /\ get_timestamp(key) > call[c].now
                /\ TookReuse(c) =>
                       /\ key \in call[c].existing_job_ids
                       /\ startswith(key, make_queue_job_prefix(call[c].target_obj))
                       /\ get_timestamp(key) > call[c].now
                       /\ \A j \in call[c].existing_job_ids :
                              startswith(j, make_queue_job_prefix(call[c].target_obj))
                                  => get_timestamp(j) <= get_timestamp(key)

\* One call strictly inside the window has resolved to the key of t0 + Delay
\* while another, in the same window of the same report, has reused a pending
\* job under a different key.
WindowCoalescingWitness ==
    \E c \in Resolved, e \in Resolved :
        /\ InWindow(c) /\ InWindow(e)
        /\ call[c].last_update_time = call[e].last_update_time
        /\ ~TookReuse(c) /\ TookReuse(e)
        /\ call[c].now > call[c].last_update_time[1]
        /\ call[c].queue_job_id
               = make_regular_queue_job_id(call[c].target_obj,
                                           call[c].last_update_time[1] + Delay)
        /\ call[e].queue_job_id # call[c].queue_job_id

\* _find_next_job_id has answered with a fresh key: there was a report and no
\* pending job to reuse.
FreshKey ==
    /\ probe.pc = "out"
    /\ probe.last_update_time # None
    /\ ~Reuses(probe.existing_job_ids, probe.obj, probe.now)

\* The most steps of the grid a key can be away from the report time
GridSteps == MaxProbeTime + 1

\* C4: a fresh key is a timestamp key of the object, its time is
\* last + k * delay for the smallest k >= 1 that puts it after now.
FreshKeyOnGrid ==
    FreshKey =>
        LET last == probe.last_update_time[1]
            t == get_timestamp(probe.queue_job_id)
        IN  /\ probe.queue_job_id = make_regular_queue_job_id(probe.obj, t)
            /\ t > probe.now
            /\ \E k \in 1..GridSteps :
                   /\ t = last + k * probe.delay
                   /\ \A m \in 1..GridSteps :
                          last + m * probe.delay > probe.now => m >= k

\* A fresh key for a call exactly one delay after the report, with other jobs
\* listed: the key is two delays after the report.
FreshKeyOnGridWitness ==
    /\ FreshKey
    /\ probe.now = probe.last_update_time[1] + probe.delay
    /\ get_timestamp(probe.queue_job_id)
           = probe.last_update_time[1] + 2 * probe.delay
    /\ probe.existing_job_ids # {}

\* The ceiling of a / b, for b > 0
CeilDiv(a, b) ==
    CHOOSE q \in -(GridSteps + 1)..(GridSteps + 1) : q * b >= a /\ (q - 1) * b < a

\* C5 as stated: the fresh key is max(1, ceil((now - last) / delay)) intervals
\* after the report.
IntervalsIsCeiling ==
    FreshKey =>
        get_timestamp(probe.queue_job_id)
            = probe.last_update_time[1]
                  + probe.delay
                        * Max(1, CeilDiv(probe.now - probe.last_update_time[1],
                                         probe.delay))

\* C5, amended: the fresh key is max(1, ceil((now - last) / delay)) intervals
\* after the report, except when now - last is a positive multiple of delay,
\* where it is one interval more.
IntervalsIsCeilingOrOneMore ==
    FreshKey =>
        LET diff == probe.now - probe.last_update_time[1]
            ceil == CeilDiv(diff, probe.delay)
        IN  get_timestamp(probe.queue_job_id)
                = probe.last_update_time[1]
                      + probe.delay
                            * (IF diff > 0 /\ diff % probe.delay = 0
                               THEN ceil + 1 ELSE Max(1, ceil))

\* A fresh key two intervals after the report for a call one full interval
\* after it, with a delay longer than one tick.
IntervalsWitness ==
    /\ FreshKey
    /\ probe.delay > 1
    /\ probe.now - probe.last_update_time[1] = 2 * probe.delay
    /\ get_timestamp(probe.queue_job_id)
           = probe.last_update_time[1] + 3 * probe.delay

\* C6: a periodic job under a timestamp key is scheduled to run at the time
\* its key encodes, and its arguments name the target of the key: cvat_task_id
\* for a task, cvat_project_id for a project.
JobRunsAtKeyTime ==
    \A j \in scheduled :
        /\ (j.cvat_task_id = None) # (j.cvat_project_id = None)
        /\ startswith(j.id, make_queue_job_prefix(PayloadObj(j)))
        /\ j.id.suffix # Initial => j.time = get_timestamp(j.id)

---------------------------------------------------------------------------
(* Properties of the report computation *)

\* obj has a report that is not older than obj's last change.
UpToDate(obj) ==
    /\ report[obj] # NoReport
    /\ report[obj].created_date >= updated_date[obj]

\* The job reports a report of obj is aggregated from
Aggregated(obj) ==
    IF obj.kind = "project" THEN SeqRange(ProjectJobs(project_tasks(obj)))
    ELSE IF obj.kind = "task" THEN SeqRange(task_jobs(obj))
    ELSE {}

\* The step is a run of _check_job_analytics for obj in which fail happens.
Ran(obj, fail) == ret'.obj = obj /\ CheckJobAnalytics(obj, fail)

\* C7: a run for an entity whose report is up to date returns that report,
\* visits no other entity, calls no calculate() and writes nothing.
StalenessShortCircuit ==
    [][\A obj \in objects : \A fail \in Failures(obj) :
           (UpToDate(obj) /\ Ran(obj, fail)) =>
               /\ ret'.err = "ok"
               /\ ret'.returned = report[obj]
               /\ ret'.visited = <<obj>>
               /\ ret'.calcs = 0
               /\ ret'.writes = 0
               /\ report' = report]_vars

\* A run for the project returned at once although a job below it had changed
\* since its report.
StalenessShortCircuitWitness ==
    /\ ret.obj = Project(1)
    /\ ret.err = "ok"
    /\ ret.visited = <<Project(1)>>
    /\ ret.calcs = 0
    /\ ret.returned = report[Project(1)]
    /\ report[Job(1)] # NoReport
    /\ report[Job(1)].created_date < updated_date[Job(1)]

\* C8 as stated: after a run for a project returns, whatever the state before,
\* every task and job below it has a report that is not older than its last
\* change.
TopDownFreshness ==
    [][\A obj \in objects : \A fail \in Failures(obj) :
           (/\ obj.kind = "project"
            /\ ret'.err = "ok"
            /\ Ran(obj, fail)) =>
               \A d \in Descendants(obj) :
                   /\ report'[d] # NoReport
                   /\ report'[d].created_date >= updated_date[d]]_vars

\* C8, amended: after a run for a project that found the project's report
\* missing or out of date returns, every task and job below it has a report
\* that is not older than its last change.
TopDownFreshnessOfStaleTop ==
    [][\A obj \in objects : \A fail \in Failures(obj) :
           (/\ obj.kind = "project"
            /\ ~UpToDate(obj)
            /\ ret'.err = "ok"
            /\ Ran(obj, fail)) =>
               \A d \in Descendants(obj) :
                   /\ report'[d] # NoReport
                   /\ report'[d].created_date >= updated_date[d]]_vars

\* A run for the out-of-date project found the task up to date and one job out
\* of date: it recomputed that job and the project, and all are up to date.
TopDownFreshnessWitness ==
    /\ ret.obj = Project(1)
    /\ ret.err = "ok"
    /\ ret.visited = <<Project(1), Task(1), Job(1), Job(2)>>
    /\ ret.calcs = 2 * NumMetrics
    /\ updated_date[Job(1)] = clock
    /\ updated_date[Project(1)] = clock
    /\ \A d \in Descendants(Project(1)) : UpToDate(d)

\* A run has just stored a full report for obj.
Recomputed(obj) ==
    /\ report'[obj] # report[obj]
    /\ report'[obj] # NoReport
    /\ report'[obj].statistics # EmptyStatistics

\* C9 as stated: when a run stores a recomputed task or project report, every
\* job report it is aggregated from is not older than the last change of that
\* task or project.
ChildrenFreshAsParent ==
    [][\A obj \in objects :
           \/ \A p \in {obj} \cup Descendants(obj) :
                  Recomputed(p) =>
                      \A j \in Aggregated(p) :
                          /\ report'[j] # NoReport
                          /\ report'[j].created_date >= updated_date[p]
           \/ \A fail \in Failures(obj) : ~Ran(obj, fail)]_vars

\* C9, amended: when a run stores a recomputed task or project report, every
\* job report it is aggregated from is not older than the last change of that
\* job.
ChildrenFreshAsThemselves ==
    [][\A obj \in objects :
           \/ \A p \in {obj} \cup Descendants(obj) :
                  Recomputed(p) =>
                      \A j \in Aggregated(p) :
                          /\ report'[j] # NoReport
                          /\ report'[j].created_date >= updated_date[j]
           \/ \A fail \in Failures(obj) : ~Ran(obj, fail)]_vars

\* A run has recomputed the report of the task from job reports that are older
\* than the task's last change and not older than the jobs' own.
ChildrenFreshWitness ==
    /\ ret.obj = Task(1)
    /\ ret.err = "ok"
    /\ ret.calcs = NumMetrics
    /\ report[Task(1)].created_date = clock
    /\ updated_date[Task(1)] = clock
    /\ report[Job(1)].created_date < clock
    /\ report[Job(2)].created_date < clock
    /\ UpToDate(Job(1)) /\ UpToDate(Job(2))

\* C10: a run in which a calculate() raises leaves the report of the entity it
\* was started for as it was: no new and no partly filled report is stored.
FailureLeavesReport ==
    [][\A obj \in objects : \A fail \in Failures(obj) :
           (ret'.err = "ComputationFailure" /\ Ran(obj, fail)) =>
               report'[obj] = report[obj]]_vars

\* The places in a run's log of the events of one kind about one entity
Indices(log, ev, obj) == {i \in DOMAIN log : log[i].ev = ev /\ log[i].obj = obj}

\* C13: a successful run for a job that has no report stores a report for it
\* whose statistics have exactly the five metric keys, each entry holding what
\* that metric's calculate() returned for the job; the run calls calculate()
\* once per metric, and each total metric after the primary entries of this
\* pass that it is handed.
LeafFirstReport ==
    [][\A obj \in objects : \A fail \in Failures(obj) :
           (/\ obj.kind = "job"
            /\ report[obj] = NoReport
            /\ ret'.err = "ok"
            /\ Ran(obj, fail)) =>
               LET log == check_job_analytics(obj, clock, fail).log
                   calls == Indices(log, "calc", obj)
               IN  /\ report'[obj] # NoReport
                   /\ DOMAIN report'[obj].statistics = MetricNames
                   /\ \A m \in MetricNames :
                          /\ report'[obj].statistics[m].title = m
                          /\ report'[obj].statistics[m].dataseries
                                 = calculate(m, obj, obj)
                          /\ Cardinality({i \in calls : log[i].metric = m}) = 1
                   /\ Cardinality(calls) = NumMetrics
                   /\ \A i \in calls :
                          /\ log[i].given = obj
                          /\ \A u \in log[i].uses :
                                 \E k \in calls : k < i /\ log[k].metric = u
                   /\ \A i \in calls : \A k \in calls :
                          (log[i].uses # {} /\ log[k].uses = {}) => k < i
                   /\ ret'.returned = report'[obj]]_vars

\* A run has created and filled the report of job 1, which had none.
LeafFirstReportWitness ==
    /\ ret.obj = Job(1)
    /\ ret.err = "ok"
    /\ ret.calcs = NumMetrics
    /\ ret.writes = 2
    /\ ret.visited = <<Job(1)>>
    /\ DOMAIN report[Job(1)].statistics = MetricNames
    /\ report[Job(1)].created_date = clock

\* The reports a run took for up to date: those of the entities whose
\* _compute_report_for_* returned the stored report without recalculating it
TakenForFresh(log) ==
    {log[i].obj : i \in {k \in DOMAIN log :
        /\ log[k].ev = "enter"
        /\ k < Len(log)
        /\ log[k + 1].ev = "return"
        /\ log[k + 1].obj = log[k].obj}}

\* The reports whose entries a run handed to a calculate() of a parent
ReadAsInput(log) ==
    UNION {{log[i].from[k].obj : k \in DOMAIN log[i].from} :
               i \in {k \in DOMAIN log : log[k].ev = "calc"}}

\* C20: every report a run takes for up to date, or hands to the aggregation of
\* a parent, has all five metric entries; the report with empty statistics
\* that is written when a report is created is never one of them.
FreshReportsAreComplete ==
    [][\A obj \in objects : \A fail \in Failures(obj) :
           Ran(obj, fail) =>
               LET x == check_job_analytics(obj, clock, fail)
               IN  \A e \in TakenForFresh(x.log) \cup ReadAsInput(x.log) :
                       DOMAIN x.report[e].statistics = MetricNames]_vars

\* obj has a report that is older than obj's last change, or none.
NeedsRecalculation(obj) == ~UpToDate(obj)

\* C17: in a successful run for a task or project whose report is out of date
\* or missing, everything done for the entities below it (their
\* _compute_report_for_* and the re-reads of their reports) comes before the
\* first calculate() of the task or project itself; those calculate() calls
\* are handed the job reports as they are after that; and the report of the
\* task or project is written once, after its last calculate().
ChildrenBeforeParent ==
    [][\A obj \in objects : \A fail \in Failures(obj) :
           (/\ obj.kind # "job"
            /\ NeedsRecalculation(obj)
            /\ ret'.err = "ok"
            /\ Ran(obj, fail)) =>
               LET x == check_job_analytics(obj, clock, fail)
                   log == x.log
                   calls == Indices(log, "calc", obj)
                   writes == Indices(log, "write", obj)
               IN  /\ Cardinality(calls) = NumMetrics
                   /\ \A i \in DOMAIN log : \A k \in calls :
                          log[i].obj # obj => i < k
                   /\ \A k \in calls :
                          /\ [n \in DOMAIN log[k].from |-> log[k].from[n].obj]
                                 = (IF obj.kind = "task" THEN task_jobs(obj)
                                    ELSE ProjectJobs(project_tasks(obj)))
                          /\ \A n \in DOMAIN log[k].from :
                                 log[k].from[n].created_date
                                     = report'[log[k].from[n].obj].created_date
                   /\ Cardinality(writes) = 1
                   /\ \A w \in writes : \A k \in calls : k < w]_vars

---------------------------------------------------------------------------
(* Properties of the on-demand jobs *)

\* C11: get_analytics_check_job returns the job stored under the id exactly
\* when that job is an on-demand one; for the id of a periodic job, pending or
\* not, and for an id no job is stored under, it returns None.
FetchReturnsOnDemandOnly ==
    [][\A rq_id \in AskedIds :
           GetAnalyticsCheckJob(rq_id) =>
               /\ \A j \in queue : j.id = rq_id => fetched'.job = Some(j)
               /\ (\A j \in queue : j.id # rq_id) => fetched'.job = None
               /\ \A j \in scheduled : fetched'.job # Some(j)]_vars

\* The id of a pending periodic job has been looked up, and nothing was returned.
FetchReturnsOnDemandOnlyWitness ==
    /\ \E j \in scheduled : fetched.rq_id = Some(j.id)
    /\ fetched.job = None

\* No on-demand job's id is a periodic job's id, begins with an entity's
\* prefix, is listed by a call or is the key a call resolved.
OnDemandIdsApart ==
    \A j \in queue :
        /\ \A k \in scheduled : j.id # k.id
        /\ \A obj \in Entities : ~startswith(j.id, make_queue_job_prefix(obj))
        /\ \A c \in Callers :
               /\ call[c].pc # "idle" => j.id \notin call[c].existing_job_ids
               /\ call[c].pc = "enqueue" => j.id # call[c].queue_job_id

\* C12: an on-demand job's id is never a periodic key nor begins with an
\* entity's prefix, so it is never listed or resolved by a call of
\* schedule_analytics_report_autoupdate_job; every on-demand request adds its
\* job and leaves the periodic jobs alone, and a call whose key no periodic
\* job is stored under enqueues that key, whatever on-demand jobs there are.
OnDemandNeverCoalesced ==
    [][/\ OnDemandIdsApart'
       /\ \A obj \in objects, user_id \in UserIds :
              ScheduleAnalyticsCheckJob(obj, user_id) =>
                  /\ Cardinality(queue') = Cardinality(queue) + 1
                  /\ scheduled' = scheduled
       /\ (Enqueue("c1") /\ \A k \in scheduled : k.id # call["c1"].queue_job_id)
              => \E k \in scheduled' : k.id = call["c1"].queue_job_id]_vars

\* A call has resolved a key that is not pending while an on-demand job is
\* queued and another periodic job is pending.
OnDemandNeverCoalescedWitness ==
    /\ \E j \in queue : j.status = "queued"
    /\ scheduled # {}
    /\ call["c1"].pc = "enqueue"
    /\ \A k \in scheduled : k.id # call["c1"].queue_job_id

---------------------------------------------------------------------------
(* Properties of interleaved and repeated scheduling *)

\* C15: however the calls, the report computations and the runs of due jobs
\* interleave, a target never has more than two periodic jobs pending.
AtMostTwoPending ==
    \A obj \in Targets : Cardinality(PendingJobs(obj)) <= 2

\* C16: a call for a target with a report either reuses the listed pending key
\* of the greatest timestamp, that timestamp being later than now, and leaves
\* the delayed queue as it is, or resolves a key whose timestamp is later than
\* now and enqueues it; either way a periodic job of the target whose run time
\* is not earlier than the call's now is pending when the call returns.  The
\* calls looked at are those that return at the time they have read as now.
PendingJobAfterCall ==
    [][\A obj \in Targets :
           (/\ Enqueue("c1")
            /\ call["c1"].target_obj = obj
            /\ call["c1"].now = clock
            /\ call["c1"].last_update_time # None) =>
               /\ TookReuse("c1") =>
                      /\ Some(call["c1"].queue_job_id)
                             = MaxJobId(call["c1"].existing_job_ids,
                                        make_queue_job_prefix(obj))
                      /\ get_timestamp(call["c1"].queue_job_id) > call["c1"].now
                      /\ scheduled' = scheduled
               /\ ~TookReuse("c1") =>
                      /\ get_timestamp(call["c1"].queue_job_id) > call["c1"].now
                      /\ \E k \in scheduled' : k.id = call["c1"].queue_job_id
               /\ \E k \in PendingJobs(obj)' : k.time >= call["c1"].now]_vars

---------------------------------------------------------------------------
(* Properties of the target of a call *)

\* The root of obj's tree: the project above it if there is one, otherwise the
\* task that stands alone
Root(obj) ==
    LET task == IF obj.kind = "job" THEN job_task(obj) ELSE obj
    IN  IF task.kind = "task" /\ task_project(task) # NoObj
        THEN task_project(task) ELSE task

\* The arguments of job name its object: exactly one of the two ids is set.
OneIdNaming(job, obj) ==
    /\ obj.kind = "task" => job.cvat_task_id = Some(obj.id) /\ job.cvat_project_id = None
    /\ obj.kind = "project" => job.cvat_project_id = Some(obj.id) /\ job.cvat_task_id = None
    /\ obj.kind # "job"

---------------------------------------------------------------------------
(* Properties of the listing *)

\* C19 as stated: every pending periodic job is to run no later than the
\* current time plus the delay, the listing a call reads has every periodic
\* job of its target that is pending at that moment, and a call that listed
\* its key leaves the delayed queue as it is.
ListingHasEveryPendingJob ==
    [][/\ \A k \in scheduled' : k.time <= clock' + Delay
       /\ \A c \in Callers :
              /\ List(c) =>
                     PendingIds(call[c].target_obj)
                         \subseteq call'[c].existing_job_ids
              /\ (Enqueue(c) /\ call[c].queue_job_id \in call[c].existing_job_ids)
                     => scheduled' = scheduled]_vars

\* C19, amended: every pending periodic job is to run no later than the
\* current time plus the delay; the listing a call reads has every pending
\* job that is to run no later than the call's own next_job_time, which is
\* every pending job when the listing is read at the time the call read as
\* now; and a call that listed its key leaves the delayed queue as it is.
ListingHasEveryJobOfItsWindow ==
    [][/\ \A k \in scheduled' : k.time <= clock' + Delay
       /\ \A c \in Callers :
              /\ List(c) =>
                     /\ {k.id : k \in {j \in scheduled :
                                           j.time <= call[c].next_job_time}}
                            \subseteq call'[c].existing_job_ids
                     /\ call[c].now = clock =>
                            PendingIds(call[c].target_obj)
                                \subseteq call'[c].existing_job_ids
              /\ (Enqueue(c) /\ call[c].queue_job_id \in call[c].existing_job_ids)
                     => scheduled' = scheduled]_vars

\* A call that read the clock before the last tick has read its listing: it
\* has the pending job that is to run at its next_job_time and has not the
\* pending job that is to run later.
ListingWitness ==
    /\ call["c1"].pc = "find"
    /\ call["c1"].now < clock
    /\ \E k \in scheduled :
           /\ k.time = call["c1"].next_job_time
           /\ k.id \in call["c1"].existing_job_ids
    /\ \E k \in scheduled :
           /\ k.time > call["c1"].next_job_time
           /\ k.id \notin call["c1"].existing_job_ids

---------------------------------------------------------------------------
(* Properties of concurrent runs *)

\* C14: however the runs of _compute_report_for_job of several workers for one
\* job interleave, no run ends in an exception, and the row a run saves is,
\* right after its save, the job's report: the statistics the run calculated
\* and the time of that save.
ConcurrentRunsComplete ==
    [][\A w \in Workers :
           /\ worker'[w].pc # "raised"
           /\ (RecalculateReport(w) /\ worker'[w].pc = "saved") =>
                  report'[worker[w].db_job]
                      = [exists |-> TRUE, created_date |-> clock,
                         statistics |-> JobStatistics(worker[w].db_job)]]_vars

====
